---- MODULE Spec2Model ----
(***************************************************************************)
(* Room allocation over a score-ordered heap (src/main.go).                *)
(*                                                                         *)
(* main builds a RoomHeap of rooms, runs heap.Init on it and starts one    *)
(* goroutine per player.  Each goroutine sleeps, takes RoomHeapMux, pops   *)
(* the top room with heap.Pop, sleeps again, adds its player, pushes the   *)
(* room back with heap.Push and calls update (heap.Fix).  A panic raised   *)
(* inside heap.Pop is recovered by a deferred function; the mutex is       *)
(* released and mainWg.Done() is called by further deferred calls.         *)
(* Once every goroutine is done main sends true twice on the close-signal  *)
(* channel, which ends the two keep-alive loops, waits for them and exits.  *)
(*                                                                         *)
(* Scores are float32 in the source.  The model keeps them exact: a        *)
(* room's Score field holds the numerator of its score over the            *)
(* denominator 16 * Capacity^2,                                            *)
(*   -7.8125*(c/cap - 0.2)^2 + 5 - p                                       *)
(*      = (-5*(5c - cap)^2 + 16*(5 - p)*cap^2) / (16*cap^2),               *)
(* and compares two scores by cross-multiplication.  For the capacities    *)
(* and counts of this model the float32 evaluation has the same sign and   *)
(* the same order as the exact value (a full room evaluates to -4.77e-7    *)
(* or -3.54e-7 instead of 0, which is still <= 0).                         *)
(*                                                                         *)
(* The backing slice is a function on 0 .. n-1, so that slot numbers and   *)
(* the Index field are the source's zero-based indices.                    *)
(***************************************************************************)
EXTENDS Integers, FiniteSets, Sequences, TLC

\* Bounds of the model (the source runs 5 rooms of capacity 4, 100 players).
MaxRooms == 3
MaxCapacity == 4
NumPlayers == 5
MaxPenalty == 5

VARIABLES
    pq,                   \* the RoomHeap: slot -> Room
    initialCountOfRooms,  \* number of rooms main created
    roomCapacity,         \* capacity main gave every room
    RoomHeapMux,          \* the goroutine holding the mutex, or NoHolder
    pc,                   \* goroutine -> its position in the closure
    pRoom,                \* goroutine -> the Room its pRoom points to, or NoRoom
    r,                    \* goroutine -> the panic value it raised, or "nil"
    mainWg,               \* counter of the WaitGroup mainWg
    mainPc,               \* position of main
    pqAtLock,             \* the RoomHeap as it was when the mutex last changed hands
    wasteChanListCloseSignalChan,  \* the values buffered in the close-signal channel
    loopPc,               \* keep-alive loop -> its position
    received,             \* keep-alive loop -> number of close signals it received
    wasteChanWg,          \* counter of the WaitGroup wasteChanWg
    calc                  \* inputs and results of a score computation on its own

\* The state of the keep-alive loops and of the channel that ends them.
shutdownVars == <<wasteChanListCloseSignalChan, loopPc, received, wasteChanWg>>

vars == <<pq, initialCountOfRooms, roomCapacity, RoomHeapMux, pc, pRoom, r,
          mainWg, mainPc, pqAtLock, shutdownVars, calc>>

Goroutines == 0 .. NumPlayers - 1

NoHolder == -1
NoRoom == [ID |-> -1]

\* The panic values a goroutine can recover.
PanicEmptyHeap == "Popping on an empty heap is not allowed."
PanicNoRoom == "No available room at the moment."
PanicIndexOutOfRange == "runtime error: index out of range"

\* RoomState, the table of state penalties.
RoomState == [IDLE |-> 0, WAITING |-> 0, IN_BATTLE |-> 9999999,
              IN_SETTLEMENT |-> 9999999, IN_DISMISSAL |-> 9999999]

\* The player of goroutine g: only the ID is read by the allocation.
testingPlayer(g) == [ID |-> g]

\* Go's integer division truncates toward zero.
GoDiv(a, b) == IF a >= 0 THEN a \div b ELSE -((-a) \div b)

\* calRoomScore with its peak at the ratio 0.4 instead of 0.2.
calRoomScorePeakMoved(playerListCount, capacity, currentRoomState) ==
    LET e == 5 * playerListCount - 2 * capacity
    IN  16 * (5 - currentRoomState) * capacity * capacity - 5 * e * e

\* calRoomScore, as the numerator over 16 * capacity^2.
calRoomScore(playerListCount, capacity, currentRoomState) ==
    LET e == 5 * playerListCount - capacity
    IN  16 * (5 - currentRoomState) * capacity * capacity - 5 * e * e

\* Room.updateScore
updateScore(room) ==
    [room EXCEPT !.Score = calRoomScore(Cardinality(room.Players), room.Capacity, room.State)]

\* addPlayerIfPossible without its call of updateScore.
addPlayerKeepScore(room, player) ==
    [room EXCEPT !.Players = room.Players \cup {player.ID}]

\* Room.addPlayerIfPossible: no feasibility check, the map entry is written
\* under the player's ID and the score is recomputed.
addPlayerIfPossible(room, player) ==
    updateScore([room EXCEPT !.Players = room.Players \cup {player.ID}])

\* The value Room.addPlayerIfPossible returns.
addPlayerIfPossibleResult(room, player) == TRUE

\* RoomHeap.Len
Len0(q) == Cardinality(DOMAIN q)

\* Comparison of the scores of two rooms: a.Score > b.Score.
ScoreGreater(a, b) ==
    a.Score * b.Capacity * b.Capacity > b.Score * a.Capacity * a.Capacity

\* Less with the comparison turned round (a min-heap).
LessReversed(q, i, j) == ScoreGreater(q[j], q[i])

\* RoomHeap.Less
Less(q, i, j) == ScoreGreater(q[i], q[j])

\* Swap without the two Index assignments.
SwapKeepIndex(q, i, j) ==
    [k \in DOMAIN q |-> IF k = j THEN q[i] ELSE IF k = i THEN q[j] ELSE q[k]]

\* RoomHeap.Swap
Swap(q, i, j) ==
    [k \in DOMAIN q |->
        IF k = j THEN [q[i] EXCEPT !.Index = j]
        ELSE IF k = i THEN [q[j] EXCEPT !.Index = i]
        ELSE q[k]]

\* up that never sifts.
upNoSift(h, j) == h

\* container/heap up
RECURSIVE up(_, _)
up(h, j) ==
    LET i == GoDiv(j - 1, 2)
    IN  IF i = j \/ ~Less(h, j, i) THEN h ELSE up(Swap(h, i, j), i)

\* container/heap down: the heap and the slot the element stopped at.
RECURSIVE down(_, _, _)
down(h, i, n) ==
    LET j1 == 2 * i + 1
        j2 == j1 + 1
        j  == IF j2 < n /\ Less(h, j2, j1) THEN j2 ELSE j1
    IN  IF j1 >= n THEN [h |-> h, i |-> i]
        ELSE IF ~Less(h, j, i) THEN [h |-> h, i |-> i]
        ELSE down(Swap(h, i, j), j, n)

\* container/heap Init
RECURSIVE heapInitFrom(_, _)
heapInitFrom(h, i) ==
    IF i < 0 THEN h ELSE heapInitFrom(down(h, i, Len0(h)).h, i - 1)

heapInit(h) == heapInitFrom(h, GoDiv(Len0(h), 2) - 1)

\* container/heap Fix
heapFix(h, i) ==
    LET d == down(h, i, Len0(h))
    IN  IF d.i > i THEN d.h ELSE up(d.h, i)

\* RoomHeap.Push: the caller's room gets Index n and a copy of it is appended.
RoomHeapPush(q, item) ==
    LET n == Len0(q)
    IN  [k \in 0 .. n |-> IF k = n THEN [item EXCEPT !.Index = n] ELSE q[k]]

\* container/heap Push
heapPush(h, item) == up(RoomHeapPush(h, item), Len0(h))

\* heap.Pop without the swap and the sift-down: the last slot is popped.
heapPopKeepOrder(h) == h

\* The part of container/heap Pop that runs before RoomHeap.Pop, on a heap
\* that is not empty: n := h.Len() - 1; h.Swap(0, n); down(h, 0, n).
heapPopPrepare(h) ==
    LET n == Len0(h) - 1 IN down(Swap(h, 0, n), 0, n).h

\* Pop taking the first item of the slice instead of the last.
RoomHeapPopFirst(old) == old[0]

\* Pop refusing only scores below zero.
RoomHeapPopPanicsBelowZero(old) == old[Len0(old) - 1].Score < 0

\* Pop that leaves the slice as long as it was.
RoomHeapPopKeepAll(old) == old

\* RoomHeap.Pop on a slice that is not empty: the last item, and whether it
\* panics, returns a copy with Index -1 and shortens the slice.
RoomHeapPopItem(old) == old[Len0(old) - 1]

RoomHeapPopPanics(old) == RoomHeapPopItem(old).Score <= 0

RoomHeapPopReturn(old) == [RoomHeapPopItem(old) EXCEPT !.Index = -1]

RoomHeapPopRest(old) == [k \in 0 .. Len0(old) - 2 |-> old[k]]

\* The two keep-alive loops, named as main names them.
WasteLoops == {"aWasteChan", "anotherWasteChan"}

\* Buffer size of wasteChanListCloseSignalChan.
CloseSignalChanCap == 1

\* No score computation on its own is under way.
NoCalc == [at |-> "none"]

\* The room literal of main's construction loop.
NewRoom(i, capacity) ==
    [ID |-> i, Capacity |-> capacity, Players |-> {},
     Score |-> calRoomScore(0, capacity, RoomState.IDLE),
     State |-> RoomState.IDLE, Index |-> i]

\* main up to the start of the goroutines.
Init ==
    /\ initialCountOfRooms \in 0 .. MaxRooms
    /\ roomCapacity \in 1 .. MaxCapacity
    /\ pq = heapInit([i \in 0 .. initialCountOfRooms - 1 |-> NewRoom(i, roomCapacity)])
    /\ RoomHeapMux = NoHolder
    /\ pc = [g \in Goroutines |-> "lock"]
    /\ pRoom = [g \in Goroutines |-> NoRoom]
    /\ r = [g \in Goroutines |-> "nil"]
    /\ mainWg = NumPlayers
    /\ mainPc = "wait"
    /\ pqAtLock = pq
    /\ wasteChanListCloseSignalChan = << >>
    /\ loopPc = [l \in WasteLoops |-> "loop"]
    /\ received = [l \in WasteLoops |-> 0]
    /\ wasteChanWg = Cardinality(WasteLoops)
    /\ calc = NoCalc

\* A mutex that never blocks.
MuxAlwaysFree == TRUE

\* Whether the mutex can be taken.
MuxFree == RoomHeapMux = NoHolder

\* time.Sleep of the goroutine's start, then RoomHeapMux.Lock(): the sleep
\* changes nothing, the goroutine is at "lock" until it has the mutex.
Lock(g) ==
    /\ pc[g] = "lock"
    /\ MuxFree
    /\ RoomHeapMux' = g
    /\ pqAtLock' = pq
    /\ pc' = [pc EXCEPT ![g] = "pop"]
    /\ UNCHANGED <<pq, initialCountOfRooms, roomCapacity, pRoom, r, mainWg, mainPc,
                   shutdownVars, calc>>

\* heap.Pop on an empty heap: h.Swap(0, -1) indexes the empty slice.
PopEmpty(g) ==
    /\ pc[g] = "pop"
    /\ Len0(pq) = 0
    /\ r' = [r EXCEPT ![g] = PanicIndexOutOfRange]
    /\ pc' = [pc EXCEPT ![g] = "recover"]
    /\ UNCHANGED <<pq, initialCountOfRooms, roomCapacity, RoomHeapMux, pRoom,
                   mainWg, mainPc, pqAtLock,
                   shutdownVars, calc>>

\* heap.Pop whose RoomHeap.Pop panics: the swap and the sift-down stay.
PopNoRoom(g) ==
    /\ pc[g] = "pop"
    /\ Len0(pq) > 0
    /\ RoomHeapPopPanics(heapPopPrepare(pq))
    /\ pq' = heapPopPrepare(pq)
    /\ r' = [r EXCEPT ![g] = PanicNoRoom]
    /\ pc' = [pc EXCEPT ![g] = "recover"]
    /\ UNCHANGED <<initialCountOfRooms, roomCapacity, RoomHeapMux, pRoom,
                   mainWg, mainPc, pqAtLock,
                   shutdownVars, calc>>

\* heap.Pop that returns a room.
PopOk(g) ==
    /\ pc[g] = "pop"
    /\ Len0(pq) > 0
    /\ ~RoomHeapPopPanics(heapPopPrepare(pq))
    /\ pq' = RoomHeapPopRest(heapPopPrepare(pq))
    /\ pRoom' = [pRoom EXCEPT ![g] = RoomHeapPopReturn(heapPopPrepare(pq))]
    /\ pc' = [pc EXCEPT ![g] = "sleepAgain"]
    /\ UNCHANGED <<initialCountOfRooms, roomCapacity, RoomHeapMux, r,
                   mainWg, mainPc, pqAtLock,
                   shutdownVars, calc>>

\* time.Sleep with the room popped.
SleepAgain(g) ==
    /\ pc[g] = "sleepAgain"
    /\ pc' = [pc EXCEPT ![g] = "add"]
    /\ UNCHANGED <<pq, initialCountOfRooms, roomCapacity, RoomHeapMux, pRoom, r,
                   mainWg, mainPc, pqAtLock,
                   shutdownVars, calc>>

\* pRoom.addPlayerIfPossible(tPlyr)
Add(g) ==
    /\ pc[g] = "add"
    /\ pRoom' = [pRoom EXCEPT ![g] = addPlayerIfPossible(pRoom[g], testingPlayer(g))]
    /\ pc' = [pc EXCEPT ![g] = "push"]
    /\ UNCHANGED <<pq, initialCountOfRooms, roomCapacity, RoomHeapMux, r,
                   mainWg, mainPc, pqAtLock,
                   shutdownVars, calc>>

\* heap.Push(&pq, pRoom): pRoom.Index becomes the last slot, whatever the
\* slot the copy in the slice is sifted to.
Push(g) ==
    /\ pc[g] = "push"
    /\ pq' = heapPush(pq, pRoom[g])
    /\ pRoom' = [pRoom EXCEPT ![g] = [pRoom[g] EXCEPT !.Index = Len0(pq)]]
    /\ pc' = [pc EXCEPT ![g] = "update"]
    /\ UNCHANGED <<initialCountOfRooms, roomCapacity, RoomHeapMux, r,
                   mainWg, mainPc, pqAtLock,
                   shutdownVars, calc>>

\* (&pq).update(pRoom, pRoom.Score): heap.Fix(pq, pItem.Index)
Update(g) ==
    /\ pc[g] = "update"
    /\ pq' = heapFix(pq, pRoom[g].Index)
    /\ pc' = [pc EXCEPT ![g] = "print"]
    /\ UNCHANGED <<initialCountOfRooms, roomCapacity, RoomHeapMux, pRoom, r,
                   mainWg, mainPc, pqAtLock,
                   shutdownVars, calc>>

\* pq.PrintInOrder(), after which the closure returns and pRoom is gone.
PrintInOrder(g) ==
    /\ pc[g] = "print"
    /\ pRoom' = [pRoom EXCEPT ![g] = NoRoom]
    /\ pc' = [pc EXCEPT ![g] = "recover"]
    /\ UNCHANGED <<pq, initialCountOfRooms, roomCapacity, RoomHeapMux, r,
                   mainWg, mainPc, pqAtLock,
                   shutdownVars, calc>>

\* The deferred function calling recover(): it stops a panic, if any.
Recover(g) ==
    /\ pc[g] = "recover"
    /\ pc' = [pc EXCEPT ![g] = "unlock"]
    /\ UNCHANGED <<pq, initialCountOfRooms, roomCapacity, RoomHeapMux, pRoom, r,
                   mainWg, mainPc, pqAtLock,
                   shutdownVars, calc>>

\* A return that leaves the mutex locked.
UnlockKeepsMutex(g) ==
    /\ pc[g] = "unlock"
    /\ pc' = [pc EXCEPT ![g] = "wgDone"]
    /\ UNCHANGED <<pq, initialCountOfRooms, roomCapacity, RoomHeapMux, pRoom, r, mainWg,
                   mainPc, pqAtLock, shutdownVars, calc>>

\* The deferred RoomHeapMux.Unlock()
Unlock(g) ==
    /\ pc[g] = "unlock"
    /\ RoomHeapMux' = NoHolder
    /\ pqAtLock' = pq
    /\ pc' = [pc EXCEPT ![g] = "wgDone"]
    /\ UNCHANGED <<pq, initialCountOfRooms, roomCapacity, pRoom, r, mainWg, mainPc,
                   shutdownVars, calc>>

\* The deferred mainWg.Done()
WgDone(g) ==
    /\ pc[g] = "wgDone"
    /\ mainWg' = mainWg - 1
    /\ pc' = [pc EXCEPT ![g] = "done"]
    /\ UNCHANGED <<pq, initialCountOfRooms, roomCapacity, RoomHeapMux, pRoom, r,
                   mainPc, pqAtLock,
                   shutdownVars, calc>>

\* mainWg.Wait() in main
MainWait ==
    /\ mainPc = "wait"
    /\ mainWg = 0
    /\ mainPc' = "waited"
    /\ UNCHANGED <<pq, initialCountOfRooms, roomCapacity, RoomHeapMux, pc, pRoom, r,
                   mainWg, pqAtLock,
                   shutdownVars, calc>>

\* wasteChanListCloseSignalChan <- true, the first of the two sends: it
\* blocks while the buffer is full.
MainSendFirst ==
    /\ mainPc = "waited"
    /\ Len(wasteChanListCloseSignalChan) < CloseSignalChanCap
    /\ wasteChanListCloseSignalChan' = Append(wasteChanListCloseSignalChan, TRUE)
    /\ mainPc' = "sentFirst"
    /\ UNCHANGED <<pq, initialCountOfRooms, roomCapacity, RoomHeapMux, pc, pRoom, r,
                   mainWg, pqAtLock, loopPc, received, wasteChanWg, calc>>

\* wasteChanListCloseSignalChan <- true, the second send.
MainSendSecond ==
    /\ mainPc = "sentFirst"
    /\ Len(wasteChanListCloseSignalChan) < CloseSignalChanCap
    /\ wasteChanListCloseSignalChan' = Append(wasteChanListCloseSignalChan, TRUE)
    /\ mainPc' = "sentSecond"
    /\ UNCHANGED <<pq, initialCountOfRooms, roomCapacity, RoomHeapMux, pc, pRoom, r,
                   mainWg, pqAtLock, loopPc, received, wasteChanWg, calc>>

\* wasteChanWg.Wait(), after which main prints and exits.
MainWaitWaste ==
    /\ mainPc = "sentSecond"
    /\ wasteChanWg = 0
    /\ mainPc' = "exit"
    /\ UNCHANGED <<pq, initialCountOfRooms, roomCapacity, RoomHeapMux, pc, pRoom, r,
                   mainWg, pqAtLock, shutdownVars, calc>>

\* A loop that receives a close signal and goes on looping.
LoopReceiveGoesOn(l) ==
    /\ loopPc[l] = "loop"
    /\ Len(wasteChanListCloseSignalChan) > 0
    /\ wasteChanListCloseSignalChan' = Tail(wasteChanListCloseSignalChan)
    /\ received' = [received EXCEPT ![l] = received[l] + 1]
    /\ UNCHANGED <<pq, initialCountOfRooms, roomCapacity, RoomHeapMux, pc, pRoom, r,
                   mainWg, mainPc, pqAtLock, loopPc, wasteChanWg, calc>>

\* An iteration of wasteChanLoop whose second select receives a value: on
\* true the loop returns.  Nothing is ever sent to the waste channels, and an
\* iteration that finds the close-signal channel empty only sleeps, so it
\* changes no variable and is a stuttering step.
LoopReceive(l) ==
    /\ loopPc[l] = "loop"
    /\ Len(wasteChanListCloseSignalChan) > 0
    /\ wasteChanListCloseSignalChan' = Tail(wasteChanListCloseSignalChan)
    /\ received' = [received EXCEPT ![l] = received[l] + 1]
    /\ loopPc' = [loopPc EXCEPT ![l] =
                    IF Head(wasteChanListCloseSignalChan) = TRUE THEN "return" ELSE "loop"]
    /\ UNCHANGED <<pq, initialCountOfRooms, roomCapacity, RoomHeapMux, pc, pRoom, r,
                   mainWg, mainPc, pqAtLock, wasteChanWg, calc>>

\* The deferred wasteChanWg.Done() of a returning loop.
LoopReturn(l) ==
    /\ loopPc[l] = "return"
    /\ wasteChanWg' = wasteChanWg - 1
    /\ loopPc' = [loopPc EXCEPT ![l] = "ended"]
    /\ UNCHANGED <<pq, initialCountOfRooms, roomCapacity, RoomHeapMux, pc, pRoom, r,
                   mainWg, mainPc, pqAtLock, wasteChanListCloseSignalChan, received, calc>>

Next ==
    \/ \E g \in Goroutines : Lock(g)
    \/ \E g \in Goroutines : PopEmpty(g)
    \/ \E g \in Goroutines : PopNoRoom(g)
    \/ \E g \in Goroutines : PopOk(g)
    \/ \E g \in Goroutines : SleepAgain(g)
    \/ \E g \in Goroutines : Add(g)
    \/ \E g \in Goroutines : Push(g)
    \/ \E g \in Goroutines : Update(g)
    \/ \E g \in Goroutines : PrintInOrder(g)
    \/ \E g \in Goroutines : Recover(g)
    \/ \E g \in Goroutines : Unlock(g)
    \/ \E g \in Goroutines : WgDone(g)
    \/ MainWait
    \/ MainSendFirst
    \/ MainSendSecond
    \/ MainWaitWaste
    \/ \E l \in WasteLoops : LoopReceive(l)
    \/ \E l \in WasteLoops : LoopReturn(l)

Spec == Init /\ [][Next]_vars

\* The Go scheduler runs a goroutine that can take a step: while some step of
\* the program is possible, one is taken.
FairSpec == Spec /\ WF_vars(Next)

(***************************************************************************)
(* Room.addPlayerIfPossible and calRoomScore on their own, on inputs drawn  *)
(* from bounded sets.                                                      *)
(***************************************************************************)

\* Everything of main at rest: no room, no goroutine under way.
AtRest ==
    /\ initialCountOfRooms = 0
    /\ roomCapacity = 1
    /\ pq = [i \in 0 .. -1 |-> NoRoom]
    /\ RoomHeapMux = NoHolder
    /\ pc = [g \in Goroutines |-> "done"]
    /\ pRoom = [g \in Goroutines |-> NoRoom]
    /\ r = [g \in Goroutines |-> "nil"]
    /\ mainWg = 0
    /\ mainPc = "wait"
    /\ pqAtLock = pq
    /\ wasteChanListCloseSignalChan = << >>
    /\ loopPc = [l \in WasteLoops |-> "loop"]
    /\ received = [l \in WasteLoops |-> 0]
    /\ wasteChanWg = Cardinality(WasteLoops)

mainVars == <<pq, initialCountOfRooms, roomCapacity, RoomHeapMux, pc, pRoom, r,
              mainWg, mainPc, pqAtLock, shutdownVars>>

\* A room with any set of players, over or under its capacity, whose Score is
\* up to date, and a player to add.
InitAdmit ==
    /\ AtRest
    /\ \E capacity \in 1 .. MaxCapacity, players \in SUBSET Goroutines, id \in Goroutines :
        calc = [at |-> "admit",
                room |-> updateScore([NewRoom(0, capacity) EXCEPT !.Players = players,
                                                                  !.Index = -1]),
                player |-> [ID |-> id]]

\* A call of room.addPlayerIfPossible(player); the room before the call is kept.
Admit ==
    /\ calc.at = "admit"
    /\ calc' = [at |-> "admitted",
                before |-> calc.room,
                player |-> calc.player,
                room |-> addPlayerIfPossible(calc.room, calc.player),
                ret |-> addPlayerIfPossibleResult(calc.room, calc.player)]
    /\ UNCHANGED mainVars

NextAdmit == Admit

SpecAdmit == InitAdmit /\ [][NextAdmit]_vars

\* A capacity, a state penalty and two player counts within the capacity.
InitScore ==
    /\ AtRest
    /\ \E capacity \in 1 .. MaxCapacity, state \in 0 .. MaxPenalty :
        \E countA, countB \in 0 .. capacity :
            calc = [at |-> "score", capacity |-> capacity, state |-> state,
                    countA |-> countA, countB |-> countB]

\* Two calls of calRoomScore with the same capacity and state.
CalScore ==
    /\ calc.at = "score"
    /\ calc' = [at |-> "scored", capacity |-> calc.capacity, state |-> calc.state,
                countA |-> calc.countA, countB |-> calc.countB,
                scoreA |-> calRoomScore(calc.countA, calc.capacity, calc.state),
                scoreB |-> calRoomScore(calc.countB, calc.capacity, calc.state)]
    /\ UNCHANGED mainVars

NextScore == CalScore

SpecScore == InitScore /\ [][NextScore]_vars

(***************************************************************************)
(* Properties                                                              *)
(***************************************************************************)

\* Goroutine g holds a room it popped and has not pushed back yet.
CheckedOut(g) == pc[g] \in {"sleepAgain", "add", "push"}

\* Positions of the closure between Lock and Unlock.
InAttempt == {"pop", "sleepAgain", "add", "push", "update", "print", "recover", "unlock"}

\* Positions of a goroutine whose heap.Pop returned, up to the closure's return.
AfterPopOk == {"sleepAgain", "add", "push", "update", "print"}

\* Goroutine g is unwinding from a panic and still holds the mutex.
Failing(g) == RoomHeapMux = g /\ pc[g] \in {"recover", "unlock"} /\ r[g] # "nil"

SameRoom(a, b) == a.ID = b.ID /\ a.Players = b.Players /\ a.Score = b.Score

\* C1: at most one goroutine holds a checked-out room, no two goroutines
\* hold the same room, and at most one goroutine is anywhere between its
\* Lock and its Unlock, so the steps of two attempts never interleave.
C1_AtMostOneCheckout ==
    /\ Cardinality({g \in Goroutines : CheckedOut(g)}) <= 1
    /\ Cardinality({g \in Goroutines : pc[g] \in InAttempt}) <= 1
    /\ \A g1, g2 \in Goroutines :
        (g1 # g2 /\ CheckedOut(g1) /\ CheckedOut(g2)) => pRoom[g1].ID # pRoom[g2].ID
    /\ \A g \in Goroutines : pc[g] \in InAttempt => RoomHeapMux = g

\* A room is checked out while another goroutine waits for the mutex.
C1_Witness ==
    \E g1, g2 \in Goroutines :
        g1 # g2 /\ CheckedOut(g1) /\ pRoom[g1] # NoRoom /\ pc[g2] = "lock"

\* Heap order of a RoomHeap: no child has a greater score than its parent.
HeapOrdered(q) ==
    \A i \in DOMAIN q : \A c \in {2 * i + 1, 2 * i + 2} :
        c \in DOMAIN q => ~ScoreGreater(q[c], q[i])

\* C2: in every state (after Init and after every heap.Pop, returning or
\* panicking, every heap.Push and every update) the scores of both children of
\* every slot are <= the score at that slot.
C2_HeapOrder == HeapOrdered(pq)

\* An attempt failed on a top score <= 0, the mutex is free again and the
\* queue holds at least two rooms.
C2_Witness ==
    \E g \in Goroutines :
        /\ r[g] = PanicNoRoom
        /\ pc[g] = "wgDone"
        /\ RoomHeapMux = NoHolder
        /\ Len0(pq) >= 2

\* C3: every room in the slice has Index equal to its slot, and every
\* checked-out room has Index -1.
C3_IndexConsistency ==
    /\ \A i \in DOMAIN pq : pq[i].Index = i
    /\ \A g \in Goroutines : CheckedOut(g) => pRoom[g].Index = -1

\* A room is checked out while the slice holds a room that swaps have moved
\* away from the slot it was created in.
C3_Witness ==
    \E g \in Goroutines :
        /\ CheckedOut(g)
        /\ \E i \in DOMAIN pq : pq[i].ID # i

\* C4: every room id created at startup is held exactly once, in a slot of
\* the slice or by one goroutine that has it checked out, and the slice holds
\* no other id.
C4_RoomExactlyOnce ==
    /\ \A id \in 0 .. initialCountOfRooms - 1 :
        Cardinality({i \in DOMAIN pq : pq[i].ID = id})
          + Cardinality({g \in Goroutines : CheckedOut(g) /\ pRoom[g].ID = id}) = 1
    /\ \A i \in DOMAIN pq : pq[i].ID \in 0 .. initialCountOfRooms - 1

\* A room is checked out after an earlier attempt succeeded, with other rooms
\* resident.
C4_Witness ==
    \E g1, g2 \in Goroutines :
        /\ CheckedOut(g1)
        /\ pc[g2] = "done" /\ r[g2] = "nil"
        /\ Len0(pq) >= 1

\* C5: an attempt that found a top score <= 0 has panicked with the
\* no-available-room value and got no room; the former top room is still in the
\* slice with the same players and score, the slice is as long as before, and
\* once the attempt is over the mutex is no longer held by it.
C5_NoRoomFailure ==
    \A g \in Goroutines :
        /\ (/\ RoomHeapMux = g
            /\ pc[g] \in InAttempt \ {"pop"}
            /\ Len0(pqAtLock) > 0
            /\ pqAtLock[0].Score <= 0)
           => /\ r[g] = PanicNoRoom
              /\ pc[g] \in {"recover", "unlock"}
              /\ pRoom[g] = NoRoom
              /\ Len0(pq) = Len0(pqAtLock)
              /\ \E i \in DOMAIN pq : SameRoom(pq[i], pqAtLock[0])
        /\ (r[g] # "nil" /\ pc[g] \in {"wgDone", "done"}) => RoomHeapMux # g

\* A second attempt fails on a top score <= 0 after an earlier one failed the
\* same way and finished.
C5_Witness ==
    \E g1, g2 \in Goroutines :
        /\ g1 # g2
        /\ r[g1] = PanicNoRoom /\ pc[g1] = "done"
        /\ Failing(g2) /\ r[g2] = PanicNoRoom

\* C6: while a failed attempt unwinds, the slice is exactly the slice the
\* attempt found: the same rooms in the same slots with the same fields.
C6_FailedAttemptLeavesQueue ==
    \A g \in Goroutines : Failing(g) => pq = pqAtLock

\* C7: a goroutine whose heap.Pop returned holds the room whose score, in the
\* slice the attempt found, was > 0 and not below the score of any room there;
\* the player is added to that room and to the copy pushed back.
C7_PoppedRoomIsBest ==
    \A g \in Goroutines :
        (RoomHeapMux = g /\ pc[g] \in AfterPopOk) =>
            /\ \E i \in DOMAIN pqAtLock :
                /\ pqAtLock[i].ID = pRoom[g].ID
                /\ pqAtLock[i].Score > 0
                /\ \A k \in DOMAIN pqAtLock : ~ScoreGreater(pqAtLock[k], pqAtLock[i])
            /\ pc[g] \in {"push", "update", "print"} => g \in pRoom[g].Players
            /\ pc[g] \in {"update", "print"} =>
                \E i \in DOMAIN pq : pq[i].ID = pRoom[g].ID /\ g \in pq[i].Players

\* A player was added to the popped room while a room with a strictly lower
\* score was resident.
C7_Witness ==
    \E g \in Goroutines :
        /\ RoomHeapMux = g /\ pc[g] = "update"
        /\ \E i, k \in DOMAIN pqAtLock :
            /\ pqAtLock[i].ID = pRoom[g].ID
            /\ ScoreGreater(pqAtLock[i], pqAtLock[k])

\* C8: an attempt on an empty queue fails with the queue's own
\* popping-on-an-empty-heap panic, not with the no-available-room one, and
\* leaves the queue empty.
C8_EmptyQueueOutcome ==
    \A g \in Goroutines :
        (RoomHeapMux = g /\ pc[g] \in InAttempt \ {"pop"} /\ Len0(pqAtLock) = 0) =>
            /\ r[g] = PanicEmptyHeap
            /\ Len0(pq) = 0

\* C9: after a pop that returned and its push the slice is as long as the
\* attempt found it, and whenever the mutex is free the slice holds exactly
\* the rooms created at startup.
C9_SizeConservation ==
    /\ \A g \in Goroutines :
        (RoomHeapMux = g /\ r[g] = "nil" /\ pc[g] \in {"update", "print", "recover", "unlock"})
            => Len0(pq) = Len0(pqAtLock)
    /\ RoomHeapMux = NoHolder =>
        /\ Len0(pq) = initialCountOfRooms
        /\ {pq[i].ID : i \in DOMAIN pq} = 0 .. initialCountOfRooms - 1

\* The mutex is free after an attempt that popped and pushed a room.
C9_Witness ==
    /\ RoomHeapMux = NoHolder
    /\ initialCountOfRooms >= 1
    /\ \E g \in Goroutines : pc[g] = "done" /\ r[g] = "nil"

\* C10: every room in the slice has Score equal to calRoomScore of its number
\* of players, its Capacity and its State.
C10_ScoreDerived ==
    \A i \in DOMAIN pq :
        pq[i].Score = calRoomScore(Cardinality(pq[i].Players), pq[i].Capacity, pq[i].State)

\* A room holding players has been pushed back.
C10_Witness ==
    \E i \in DOMAIN pq : Cardinality(pq[i].Players) >= 2

\* Number of goroutines that finished without a panic / with one.
Succeeded == {g \in Goroutines : pc[g] = "done" /\ r[g] = "nil"}

Failed == {g \in Goroutines : pc[g] = "done" /\ r[g] # "nil"}

AllDone == \A g \in Goroutines : pc[g] = "done"

Min(a, b) == IF a <= b THEN a ELSE b

\* C11: an attempt that found a resident room with score > 0 does not panic,
\* and an attempt that panicked with the no-available-room value found no
\* resident room with score > 0.
C11_SucceedsWhenRoomAvailable ==
    \A g \in Goroutines :
        (RoomHeapMux = g /\ pc[g] \in InAttempt \ {"pop"}) =>
            /\ (\E i \in DOMAIN pqAtLock : pqAtLock[i].Score > 0) => r[g] = "nil"
            /\ r[g] = PanicNoRoom =>
                /\ Len0(pqAtLock) > 0
                /\ \A i \in DOMAIN pqAtLock : pqAtLock[i].Score <= 0

\* The scenario of one empty room of capacity 4: the second of two successive
\* attempts has pushed the room back with 2 occupants, both without a panic.
C11_Witness ==
    /\ initialCountOfRooms = 1 /\ roomCapacity = 4
    /\ \E g1, g2 \in Goroutines :
        /\ g1 # g2
        /\ pc[g1] = "done" /\ r[g1] = "nil"
        /\ RoomHeapMux = g2 /\ pc[g2] = "update" /\ r[g2] = "nil"
        /\ pq[0].Players = {g1, g2}
        /\ \A g \in Goroutines \ {g1, g2} : pc[g] = "lock"

\* C12: a goroutine that holds a checked-out room is at its add or at its
\* push, never at a sleep.
C12_NoSuspensionWhileCheckedOut ==
    \A g \in Goroutines : CheckedOut(g) => pc[g] \in {"add", "push"}

\* C16: when update is about to run, the Index of the room the goroutine holds
\* is the slot at which that room is stored in the slice.
C16_FixIndexIsRoomSlot ==
    \A g \in Goroutines :
        pc[g] = "update" =>
            /\ pRoom[g].Index \in DOMAIN pq
            /\ pq[pRoom[g].Index].ID = pRoom[g].ID

\* C18: no room, resident or checked out, holds more players than its
\* Capacity.
C18_CapacityNeverExceeded ==
    /\ \A i \in DOMAIN pq : Cardinality(pq[i].Players) <= pq[i].Capacity
    /\ \A g \in Goroutines :
        pRoom[g] # NoRoom => Cardinality(pRoom[g].Players) <= pRoom[g].Capacity

\* Every room is full and a further attempt has been refused.
C18_Witness ==
    /\ Len0(pq) >= 2
    /\ \A i \in DOMAIN pq : Cardinality(pq[i].Players) = pq[i].Capacity
    /\ \E g \in Goroutines : r[g] = PanicNoRoom

C13_AddPlayer ==
    calc.at = "admitted" =>
        LET before == calc.before
            after == calc.room
            id == calc.player.ID
        IN  /\ calc.ret = TRUE
            /\ id \in after.Players
            /\ before.Players \subseteq after.Players
            /\ Cardinality(after.Players) =
                IF id \in before.Players THEN Cardinality(before.Players)
                ELSE Cardinality(before.Players) + 1
            /\ after.Score = calRoomScore(Cardinality(after.Players), after.Capacity, after.State)
            /\ after.ID = before.ID /\ after.Capacity = before.Capacity
            /\ after.State = before.State /\ after.Index = before.Index

\* A player whose id was already there has been added to a room that holds
\* more players than its capacity.
C13_Witness ==
    /\ calc.at = "admitted"
    /\ calc.player.ID \in calc.before.Players
    /\ Cardinality(calc.before.Players) > calc.before.Capacity

\* Distance of a count from 0.2 * capacity, times 5.
DistFromPeak(count, capacity) ==
    IF 5 * count >= capacity THEN 5 * count - capacity ELSE capacity - 5 * count

C15_AttemptsTerminate ==
    /\ (RoomHeapMux # NoHolder) ~> (RoomHeapMux = NoHolder)
    /\ <>(AllDone /\ mainWg = 0 /\ mainPc # "wait")

\* main is past mainWg.Wait() after attempts that succeeded and attempts that
\* recovered a panic.
C15_Witness ==
    /\ mainPc = "waited"
    /\ Succeeded # {} /\ Failed # {}
    /\ RoomHeapMux = NoHolder

\* C17: no loop ever receives more than one close signal, main reaches its
\* exit (so neither send blocks for ever), and at the exit each loop has
\* received exactly one signal and has ended.
C17_Shutdown ==
    /\ [](\A l \in WasteLoops : received[l] <= 1)
    /\ [](mainPc = "exit" =>
            /\ \A l \in WasteLoops : received[l] = 1 /\ loopPc[l] = "ended"
            /\ wasteChanListCloseSignalChan = << >>
            /\ AllDone)
    /\ <>(mainPc = "exit")

\* main is at its exit, both loops having received one signal each.
C17_Witness ==
    /\ mainPc = "exit"
    /\ \A l \in WasteLoops : received[l] = 1 /\ loopPc[l] = "ended"

====
